---------------------------- MODULE Spec2Model ----------------------------
(***************************************************************************)
(* A model of style_transfer/style_transfer.py: the StyleTransfer engine   *)
(* (construction, stylize, get_image), the scale schedule (gen_scales),    *)
(* the geometry helper size_to_fit, the bias-corrected running average     *)
(* (EMA), the warm start of Adam across scales (scale_adam) and the        *)
(* normalisation of the style and content weights.                         *)
(*                                                                         *)
(* Real numbers are exact rationals <<n, d>> with d > 0 in lowest terms.   *)
(* A tensor is one representative pixel value together with its spatial    *)
(* shape <<h, w>>.                                                         *)
(* The EMA class is modelled a second time on its own in IEEE binary32,    *)
(* and the content-loss terms of the composite loss over short vectors.    *)
(***************************************************************************)
EXTENDS Integers, Sequences, FiniteSets, TLC

VARIABLES
    \* ---- gen_scales and the schedule prefix of stylize
    gs_pc,          \* "off" | "call" | "loop" | "done"
    gs_min,         \* stylize's min_scale argument
    gs_end,         \* stylize's end_scale argument
    gs_start,       \* gen_scales' start
    gs_scale,       \* gen_scales' local scale
    gs_i,           \* gen_scales' local i
    gs_scales,      \* gen_scales' local set scales
    gs_result,      \* the sorted list returned, <<>> before the return
    \* ---- the weight prefix of stylize (lines 404-412)
    w_pc,           \* "off" | "call" | "done" | "raised"
    w_arg,          \* the style_weights argument: None or a list of numbers
    w_nimages,      \* len(style_images)
    w_content_weight,   \* the content_weight argument
    content_weights,    \* stylize's local content_weights
    style_weights,      \* stylize's local style_weights after normalisation
    w_err,          \* the exception raised, NoError if none
    \* ---- the StyleTransfer engine
    pc,             \* where the engine's caller or the running call stands
    devices,        \* len(self.devices)
    model,          \* self.model: None, or Some(the layers' device plan)
    image,          \* self.image: None, or Some([shape, val])
    average,        \* self.average: None, or Some([shape, value, decay, accum])
    optimizer,      \* stylize arguments
    iterations,
    initial_iterations,
    callback,       \* TRUE when a callback is given
    avg_decay,
    step_size,
    content_size,   \* content_image.size, <<w, h>>
    style_sizes,    \* [image.size for image in style_images]
    scales,         \* stylize locals
    si,             \* index into scales of the for loop's current scale
    opt,
    i,
    err,            \* the exception the constructor or the call raised
    ret,            \* what stylize returned
    got,            \* the last get_image call since the last stylize call began
    \* ---- observations of the running call
    fe_calls,       \* feature-extractor evaluations in this call
    image0,         \* self.image and self.average when the call began
    average0,
    log,            \* the records handed to the callback, in order
    its,            \* optimizer steps taken at each finished scale
    step_out,       \* the image value as opt.step left it
    update_in,      \* the image value handed to average.update
    resample_src,   \* the image handed to interpolate in PREPARE
    commit_val,     \* average.get() at the last COMMIT
    opt_prev,       \* opt as the optimizer construction found it
    \* ---- an EMA object in float32
    ema_pc,         \* "off" | "new" | "live"
    ema_decay,      \* the buffer decay
    ema_value,      \* the buffer value (one element)
    ema_accum,      \* the buffer accum
    ema_input,      \* the input the constructor was given
    ema_n,          \* update calls since the constructor's own
    ema_got,        \* what the last get() returned, None before any
    \* ---- a content-loss term of the composite loss
    l_pc,           \* "off" | "call" | "built"
    l_content_weight,   \* stylize's content_weight argument
    l_target,       \* the target the term was built with, None before
    l_scale,        \* the Scale module's buffer scale, None before
    l_input,        \* the activation the term was last evaluated on
    l_term          \* the value the term returned, None before any

svars == <<gs_pc, gs_min, gs_end, gs_start, gs_scale, gs_i, gs_scales, gs_result>>

wvars == <<w_pc, w_arg, w_nimages, w_content_weight, content_weights, style_weights, w_err>>

evars == <<pc, devices, model, image, average, optimizer, iterations,
           initial_iterations, callback, avg_decay, step_size, content_size,
           style_sizes, scales, si, opt, i, err, ret, got, fe_calls, image0,
           average0, log, its, step_out, update_in, resample_src, commit_val,
           opt_prev>>

fvars == <<ema_pc, ema_decay, ema_value, ema_accum, ema_input, ema_n, ema_got>>

lvars == <<l_pc, l_content_weight, l_target, l_scale, l_input, l_term>>

vars == <<svars, wvars, evars, fvars, lvars>>

\* Python's None for a variable that otherwise holds one value x, held as <<x>>.
None == <<>>

Some(x) == <<x>>

\* No exception.
NoError == "none"

-----------------------------------------------------------------------------
(* Integer helpers *)

Abs(x) == IF x < 0 THEN -x ELSE x

Min2(a, b) == IF a <= b THEN a ELSE b

Max2(a, b) == IF a >= b THEN a ELSE b

RECURSIVE Pow2(_)
Pow2(n) == IF n = 0 THEN 1 ELSE 2 * Pow2(n - 1)

RECURSIVE GCD(_, _)
GCD(a, b) == IF b = 0 THEN a ELSE GCD(b, a % b)

\* Python's round() of the quotient a / b (a >= 0, b > 0): to nearest, ties to even.
RoundDiv(a, b) ==
    LET q == a \div b
        r == a % b
    IN  IF 2 * r < b THEN q
        ELSE IF 2 * r > b THEN q + 1
        ELSE IF q % 2 = 0 THEN q ELSE q + 1

\* round(end / pow(2, k/2)).  For even k the divisor is the integer 2^(k/2).
\* For odd k = 2m+1 the quotient end / (2^m * sqrt 2) is irrational, so it is
\* the n with n - 1/2 < end / (2^m sqrt 2) < n + 1/2, squared to stay in integers.
KRound(end, k) ==
    LET m == k \div 2
    IN  IF k % 2 = 0 THEN RoundDiv(end, Pow2(m))
        ELSE CHOOSE n \in 0..end :
                /\ (n = 0 \/ (2*n - 1) * (2*n - 1) * Pow2(2*m + 1) < 4 * end * end)
                /\ 4 * end * end < (2*n + 1) * (2*n + 1) * Pow2(2*m + 1)

\* sorted(s) for a finite set of integers.
RECURSIVE Sorted(_)
Sorted(s) ==
    IF s = {} THEN <<>>
    ELSE LET lo == CHOOSE x \in s : \A y \in s : x <= y
         IN  <<lo>> \o Sorted(s \ {lo})

-----------------------------------------------------------------------------
(* Exact rationals <<n, d>>, d > 0, in lowest terms *)

RNorm(n, d) ==
    LET g == GCD(Abs(n), Abs(d))
        sgn == IF d < 0 THEN -1 ELSE 1
    IN  <<sgn * (n \div g), Abs(d) \div g>>

R(n) == <<n, 1>>

RAdd(a, b) == RNorm(a[1] * b[2] + b[1] * a[2], a[2] * b[2])

RSub(a, b) == RNorm(a[1] * b[2] - b[1] * a[2], a[2] * b[2])

RMul(a, b) == RNorm(a[1] * b[1], a[2] * b[2])

\* a / b for b # 0.
RDiv(a, b) == RNorm(a[1] * b[2], a[2] * b[1])

RAbs(a) == <<Abs(a[1]), a[2]>>

RLe(a, b) == a[1] * b[2] <= b[1] * a[2]

RLt(a, b) == a[1] * b[2] < b[1] * a[2]

RECURSIVE RSumAbs(_)
RSumAbs(ws) == IF ws = <<>> THEN R(0) ELSE RAdd(RAbs(Head(ws)), RSumAbs(Tail(ws)))

RECURSIVE SumAbs(_)
SumAbs(ws) == IF ws = <<>> THEN 0 ELSE Abs(Head(ws)) + SumAbs(Tail(ws))

RECURSIVE SumSigned(_)
SumSigned(ws) == IF ws = <<>> THEN 0 ELSE Head(ws) + SumSigned(Tail(ws))

-----------------------------------------------------------------------------
(* IEEE binary32, the dtype of the tensors: a non-negative float is <<0, 0>> *)
(* or <<m, e>> with 2^23 <= m < 2^24, standing for m * 2^e.  Every operation *)
(* rounds to nearest, ties to even.  The values met stay far from the        *)
(* subnormal range and from overflow.  Intermediate integers stay below 2^31.*)

F32Zero == <<0, 0>>

\* 1.0 as a float32.
F32One == <<8388608, -23>>

RECURSIVE Bits(_)
Bits(n) == IF n = 0 THEN 0 ELSE 1 + Bits(n \div 2)

\* The float32 nearest to n * 2^e (+ a positive amount below one unit of n
\* when sticky), for 0 < n < 2^30.
F32Round(n, e, sticky) ==
    LET b == Bits(n)
    IN  IF b <= 24 THEN <<n * Pow2(24 - b), e - (24 - b)>>
        ELSE LET s == b - 24
                 q == n \div Pow2(s)
                 low == n % Pow2(s)
                 half == Pow2(s - 1)
                 up == \/ low > half
                       \/ low = half /\ (sticky \/ q % 2 = 1)
                 m == IF up THEN q + 1 ELSE q
             IN  IF m = 16777216 THEN <<8388608, e + s + 1>> ELSE <<m, e + s>>

\* a * b.  The 48-bit product of the mantissas is formed from 12-bit halves.
F32Mul(a, b) ==
    IF a[1] = 0 \/ b[1] = 0 THEN F32Zero
    ELSE LET ah == a[1] \div 4096
             al == a[1] % 4096
             bh == b[1] \div 4096
             bl == b[1] % 4096
             mid == ah * bl + al * bh
             lowsum == (mid % 4096) * 4096 + al * bl
             hi == ah * bh + mid \div 4096 + lowsum \div 16777216
             lo == lowsum % 16777216
         IN  F32Round(hi * 64 + lo \div 262144, a[2] + b[2] + 18, lo % 262144 # 0)

\* a + b for non-negative a and b.
F32Add(a, b) ==
    IF a[1] = 0 THEN b
    ELSE IF b[1] = 0 THEN a
    ELSE LET big == IF a[2] >= b[2] THEN a ELSE b
             small == IF a[2] >= b[2] THEN b ELSE a
             d == big[2] - small[2]
         IN  IF d <= 5 THEN F32Round(big[1] * Pow2(d) + small[1], small[2], FALSE)
             ELSE IF d >= 30 THEN big
             ELSE F32Round(big[1] * 32 + small[1] \div Pow2(d - 5), big[2] - 5,
                           small[1] % Pow2(d - 5) # 0)

\* 1 - a for 2^-5 <= a <= 1.
F32OneMinus(a) ==
    LET n == Pow2(-a[2]) - a[1]
    IN  IF n = 0 THEN F32Zero ELSE F32Round(n, a[2], FALSE)

\* The quotient and remainder of r * 2^k by m, for r < m, bit by bit.
RECURSIVE LongDiv(_, _, _, _)
LongDiv(q, r, m, k) ==
    IF k = 0 THEN <<q, r>>
    ELSE IF 2 * r >= m THEN LongDiv(2 * q + 1, 2 * r - m, m, k - 1)
    ELSE LongDiv(2 * q, 2 * r, m, k - 1)

\* a / b for b # 0.
F32Div(a, b) ==
    IF a[1] = 0 THEN F32Zero
    ELSE LET qr == LongDiv(a[1] \div b[1], a[1] % b[1], b[1], 25)
         IN  F32Round(qr[1], a[2] - b[2] - 25, qr[2] # 0)

-----------------------------------------------------------------------------
(* The parts of the state a specification does not use *)

ScalesOff ==
    /\ gs_pc = "off"
    /\ gs_min = 0
    /\ gs_end = 0
    /\ gs_start = 0
    /\ gs_scale = 0
    /\ gs_i = 0
    /\ gs_scales = {}
    /\ gs_result = <<>>

WeightsOff ==
    /\ w_pc = "off"
    /\ w_arg = None
    /\ w_nimages = 0
    /\ w_content_weight = R(0)
    /\ content_weights = <<>>
    /\ style_weights = <<>>
    /\ w_err = NoError

\* The engine before StyleTransfer(...) is called, and the locals of a call
\* that has not begun.
NoCall ==
    /\ optimizer = ""
    /\ iterations = 0
    /\ initial_iterations = 0
    /\ callback = FALSE
    /\ avg_decay = R(0)
    /\ step_size = R(0)
    /\ content_size = <<0, 0>>
    /\ style_sizes = <<>>
    /\ scales = <<>>
    /\ si = 0
    /\ opt = None
    /\ i = 0
    /\ ret = None
    /\ fe_calls = 0
    /\ image0 = None
    /\ average0 = None
    /\ log = <<>>
    /\ its = <<>>
    /\ step_out = None
    /\ update_in = None
    /\ resample_src = None
    /\ commit_val = None
    /\ opt_prev = None

EMAOff ==
    /\ ema_pc = "off"
    /\ ema_decay = F32Zero
    /\ ema_value = F32Zero
    /\ ema_accum = F32Zero
    /\ ema_input = F32Zero
    /\ ema_n = 0
    /\ ema_got = None

LossOff ==
    /\ l_pc = "off"
    /\ l_content_weight = R(0)
    /\ l_target = None
    /\ l_scale = None
    /\ l_input = <<>>
    /\ l_term = None

EngineOff ==
    /\ pc = "new"
    /\ devices = 0
    /\ model = None
    /\ image = None
    /\ average = None
    /\ err = NoError
    /\ got = None
    /\ NoCall

-----------------------------------------------------------------------------
(* gen_scales *)

\* Largest scale arguments drawn besides the documented example (128, 512).
MaxScale == 24

\* The while condition of gen_scales.
GenScalesMutantGuard(scale, start) == scale > start

GenScalesGuard(scale, start) == scale >= start

\* The update of the local scale at the end of the loop body (line 312).
GenScalesNext(end, n) == KRound(end, n)

\* gen_scales as one operator: the loop unrolled by recursion.
RECURSIVE GenScalesLoop(_, _, _, _, _)
GenScalesLoop(start, end, scale, n, seen) ==
    IF GenScalesGuard(scale, start)
    THEN GenScalesLoop(start, end, GenScalesNext(end, n + 1), n + 1, seen \cup {scale})
    ELSE Sorted(seen)

gen_scales(start, end) == GenScalesLoop(start, end, end, 0, {})

ScaleArgs == ((1..MaxScale) \X (1..MaxScale)) \cup {<<128, 512>>, <<600, 512>>}

InitScales ==
    /\ WeightsOff
    /\ EngineOff
    /\ EMAOff
    /\ LossOff
    /\ gs_pc = "call"
    /\ \E a \in ScaleArgs : gs_min = a[1] /\ gs_end = a[2]
    /\ gs_start = 0
    /\ gs_scale = 0
    /\ gs_i = 0
    /\ gs_scales = {}
    /\ gs_result = <<>>

\* stylize line 403 and the entry of gen_scales (lines 306-308).
ScheduleCall ==
    /\ gs_pc = "call"
    /\ gs_start' = Min2(gs_min, gs_end)
    /\ gs_scale' = gs_end
    /\ gs_i' = 0
    /\ gs_scales' = {}
    /\ gs_pc' = "loop"
    /\ UNCHANGED <<gs_min, gs_end, gs_result>>
    /\ UNCHANGED <<wvars, evars, fvars, lvars>>

\* One pass of the while loop (lines 309-312).
ScheduleLoop ==
    /\ gs_pc = "loop"
    /\ GenScalesGuard(gs_scale, gs_start)
    /\ gs_scales' = gs_scales \cup {gs_scale}
    /\ gs_i' = gs_i + 1
    /\ gs_scale' = GenScalesNext(gs_end, gs_i + 1)
    /\ UNCHANGED <<gs_pc, gs_min, gs_end, gs_start, gs_result>>
    /\ UNCHANGED <<wvars, evars, fvars, lvars>>

\* The loop exit and return sorted(scales) (line 313).
ScheduleReturn ==
    /\ gs_pc = "loop"
    /\ ~GenScalesGuard(gs_scale, gs_start)
    /\ gs_result' = Sorted(gs_scales)
    /\ gs_pc' = "done"
    /\ UNCHANGED <<gs_min, gs_end, gs_start, gs_scale, gs_i, gs_scales>>
    /\ UNCHANGED <<wvars, evars, fvars, lvars>>

NextScales == ScheduleCall \/ ScheduleLoop \/ ScheduleReturn

SpecScales == InitScales /\ [][NextScales]_vars

-----------------------------------------------------------------------------
(* C5 *)

\* The first k whose rounded value round(end / 2^(k/2)) falls below start.
RECURSIVE FirstBelow(_, _, _)
FirstBelow(start, end, k) ==
    IF KRound(end, k) < start THEN k ELSE FirstBelow(start, end, k + 1)

\* C5: for 1 <= start <= end, with start = min(min_scale, end_scale) as stylize
\* passes it, the list gen_scales returns is strictly increasing, ends in end,
\* has no element below start, and holds exactly the values
\* round(end / 2^(k/2)) for k = 0, 1, ... before the first k whose rounded
\* value is below start; gen_scales(128, 512) is [128, 181, 256, 362, 512];
\* and it is the schedule the stylize model computes.
C5_GenScales ==
    gs_pc = "done" =>
        LET start == Min2(gs_min, gs_end)
            r == gs_result
            K == FirstBelow(start, gs_end, 0)
        IN  /\ Len(r) >= 1
            /\ r[Len(r)] = gs_end
            /\ \A j \in 1..(Len(r) - 1) : r[j] < r[j + 1]
            /\ \A j \in 1..Len(r) : r[j] >= start
            /\ {r[j] : j \in 1..Len(r)} = {KRound(gs_end, k) : k \in 0..(K - 1)}
            /\ (gs_min = 128 /\ gs_end = 512 => r = <<128, 181, 256, 362, 512>>)
            /\ r = gen_scales(start, gs_end)

\* A returned schedule of at least three scales in which rounding produced a
\* duplicate that the set removed.
C5_Witness ==
    /\ gs_pc = "done"
    /\ gs_min < gs_end
    /\ Len(gs_result) >= 3
    /\ gs_i > Len(gs_result) + 1

-----------------------------------------------------------------------------
(* The weight prefix of stylize: lines 404-412 *)

\* StyleTransfer.__init__, lines 353-354.
content_layers == <<22>>

style_layers == <<1, 6, 11, 20, 29>>

\* The largest style_weights list and the largest entry magnitude drawn.
MaxWeights == 3

MaxWeight == 2

\* The largest number of style images drawn.
MaxImages == 3

\* content_weight values drawn: the default 0.015, and 1, -1/2, 2.
ContentWeightArgs == {<<3, 200>>, <<1, 1>>, <<-1, 2>>, <<2, 1>>}

WeightLists ==
    UNION {[1..n -> (-MaxWeight)..MaxWeight] : n \in 0..MaxWeights}

\* Line 409 with the absolute value dropped.
WeightSumSigned(ws) == SumSigned(ws)

\* Line 409: weight_sum = sum(abs(w) for w in style_weights).
WeightSum(ws) == SumAbs(ws)

\* Line 404: [content_weight / len(content_layers)] * len(content_layers).
ContentWeights(cw) ==
    [j \in 1..Len(content_layers) |-> RDiv(cw, R(Len(content_layers)))]

InitWeights ==
    /\ ScalesOff
    /\ EngineOff
    /\ EMAOff
    /\ LossOff
    /\ w_pc = "call"
    /\ w_arg \in {None} \cup {Some(ws) : ws \in WeightLists}
    /\ w_nimages \in 0..MaxImages
    /\ w_content_weight \in ContentWeightArgs
    /\ content_weights = <<>>
    /\ style_weights = <<>>
    /\ w_err = NoError

\* Lines 406-407 with an empty style_images list: 1 / 0.
WeightsDefaultZeroDivision ==
    /\ w_pc = "call"
    /\ w_arg = None
    /\ w_nimages = 0
    /\ content_weights' = ContentWeights(w_content_weight)
    /\ w_err' = "ZeroDivisionError"
    /\ w_pc' = "raised"
    /\ UNCHANGED <<w_arg, w_nimages, w_content_weight, style_weights>>
    /\ UNCHANGED <<svars, evars, fvars, lvars>>

\* Lines 409-410 with a non-empty list whose weight_sum is 0: weight / 0.
WeightsZeroDivision ==
    /\ w_pc = "call"
    /\ w_arg # None
    /\ w_arg[1] # <<>>
    /\ WeightSum(w_arg[1]) = 0
    /\ content_weights' = ContentWeights(w_content_weight)
    /\ w_err' = "ZeroDivisionError"
    /\ w_pc' = "raised"
    /\ UNCHANGED <<w_arg, w_nimages, w_content_weight, style_weights>>
    /\ UNCHANGED <<svars, evars, fvars, lvars>>

\* Lines 404-412 when no division fails: the weights are normalised, then the
\* lengths are compared.
WeightsNormalize ==
    /\ w_pc = "call"
    /\ IF w_arg = None THEN w_nimages # 0 ELSE (w_arg[1] = <<>> \/ WeightSum(w_arg[1]) # 0)
    /\ content_weights' = ContentWeights(w_content_weight)
    /\ LET sw == IF w_arg = None
                 THEN [j \in 1..w_nimages |-> RDiv(R(1), R(w_nimages))]
                 ELSE [j \in 1..Len(w_arg[1]) |->
                          RDiv(R(w_arg[1][j]), R(WeightSum(w_arg[1])))]
       IN  /\ style_weights' = sw
           /\ IF w_nimages # Len(sw)
              THEN w_err' = "ValueError" /\ w_pc' = "raised"
              ELSE w_err' = NoError /\ w_pc' = "done"
    /\ UNCHANGED <<w_arg, w_nimages, w_content_weight>>
    /\ UNCHANGED <<svars, evars, fvars, lvars>>

NextWeights == WeightsDefaultZeroDivision \/ WeightsZeroDivision \/ WeightsNormalize

SpecWeights == InitWeights /\ [][NextWeights]_vars

-----------------------------------------------------------------------------
(* C8 *)

\* C8 as stated: in every stylize run the normalised style-image weights and
\* the content-layer weights each sum to 1 in absolute value.
C8_AsStated ==
    w_pc = "done" =>
        /\ RSumAbs(style_weights) = R(1)
        /\ RSumAbs(content_weights) = R(1)

\* C8 amended: when the weight prefix completes with at least one style image,
\* the style-image weights (the default and any user-supplied list, negative
\* entries included) sum to 1 in absolute value; each content-layer weight is
\* content_weight / len(content_layers), so the content-layer weights sum to
\* |content_weight| in absolute value.
C8_WeightSums ==
    w_pc = "done" =>
        /\ (w_nimages >= 1 => RSumAbs(style_weights) = R(1))
        /\ Len(style_weights) = w_nimages
        /\ Len(content_weights) = Len(content_layers)
        /\ \A j \in 1..Len(content_weights) :
              RMul(content_weights[j], R(Len(content_layers))) = w_content_weight
        /\ RSumAbs(content_weights) = RAbs(w_content_weight)

\* A completed prefix whose user-supplied list mixes a negative and a positive
\* entry of different magnitudes.
C8_Witness ==
    /\ w_pc = "done"
    /\ w_arg # None
    /\ \E j, k \in 1..Len(w_arg[1]) :
          w_arg[1][j] < 0 /\ w_arg[1][k] > 0 /\ w_arg[1][j] + w_arg[1][k] # 0
    /\ w_content_weight = <<3, 200>>

-----------------------------------------------------------------------------
(* Helpers of the engine *)

\* size_to_fit(size, max_dim, scale_up), size = <<w, h>>.
size_to_fit(size, max_dim, scale_up) ==
    LET w == size[1]
        h == size[2]
    IN  IF ~scale_up /\ Max2(h, w) <= max_dim THEN <<w, h>>
        ELSE IF h > w THEN <<RoundDiv(max_dim * w, h), max_dim>>
        ELSE <<max_dim, RoundDiv(max_dim * h, w)>>

SeqMax(q) == CHOOSE x \in {q[j] : j \in 1..Len(q)} : \A j \in 1..Len(q) : q[j] <= x

\* VGGFeatures._get_min_size: one doubling per pooling layer at or below the
\* deepest requested layer.
PoolLayers == {4, 9, 18, 27, 36}

get_min_size(layers) == Pow2(Cardinality({l \in PoolLayers : l <= SeqMax(layers)}))

\* VGGFeatures.forward's size check on an input of shape <<h, w>>.
TooSmall(shape, layers) == Min2(shape[1], shape[2]) < get_min_size(layers)

\* Tensor.clamp(0, 1) and relu_ on the representative value.
Clamp01(v) == IF RLt(v, R(0)) THEN R(0) ELSE IF RLt(R(1), v) THEN R(1) ELSE v

Relu(v) == IF RLt(v, R(0)) THEN R(0) ELSE v

\* What resampling may add to the representative value: a bicubic kernel has
\* negative lobes, so its result may leave the range of its input by some
\* amount; a bilinear kernel is a convex combination and cannot.
Overshoots == {<<-1, 4>>, <<0, 1>>, <<1, 4>>}

Bicubic(v) == {RAdd(v, o) : o \in Overshoots}

Bilinear(v) == {v}

\* EMA.update.
EMAUpdate(e, x) ==
    [e EXCEPT !.accum = RMul(e.accum, e.decay),
              !.value = RAdd(RMul(e.value, e.decay), RMul(RSub(R(1), e.decay), x))]

\* EMA.__init__ on a tensor of the given shape and value.
EMA(shape, x, decay) ==
    EMAUpdate([shape |-> shape, value |-> R(0), decay |-> decay, accum |-> R(1)], x)

\* EMA.get.
EMAGet(e) == RDiv(e.value, RSub(R(1), e.accum))

\* torchvision's to_pil_image on a float tensor: mul(255).byte(), 8 bits a pixel.
ToPil(v) == (255 * v[1]) \div v[2]

\* np.uint16(np.round(arr * 65535)).
ToUint16(v) == RoundDiv(65535 * v[1], v[2])

\* str.lower on the format names drawn.
Lower(f) == IF f = "PIL" THEN "pil" ELSE IF f = "NP_UINT16" THEN "np_uint16" ELSE f

Formats == {"pil", "NP_UINT16", "jpeg"}

NoImage == [kind |-> "None", size |-> <<0, 0>>, px |-> 0]

\* get_image with a running average present: the clamped average rendered,
\* or the ValueError of an unknown image_type.
Render(avg, image_type) ==
    LET v == Clamp01(EMAGet(avg))
    IN  IF Lower(image_type) = "pil"
        THEN [kind |-> "pil", size |-> <<avg.shape[2], avg.shape[1]>>, px |-> ToPil(v)]
        ELSE IF Lower(image_type) = "np_uint16"
        THEN [kind |-> "np_uint16", size |-> avg.shape, px |-> ToUint16(v)]
        ELSE [kind |-> "ValueError", size |-> <<0, 0>>, px |-> 0]

\* StyleTransfer.get_image: nothing is done, and None returned, without a
\* running average.
get_image(avg, image_type) ==
    IF avg # None THEN Render(avg[1], image_type) ELSE NoImage

-----------------------------------------------------------------------------
(* StyleTransfer.__init__ *)

\* The longest device list drawn.
MaxDevices == 3

InitEngine ==
    /\ ScalesOff
    /\ WeightsOff
    /\ EngineOff
    /\ EMAOff
    /\ LossOff

\* Lines 348-361: the fields are set and the feature extractor is built.
CtorBuild ==
    /\ pc = "new"
    /\ \E n \in 0..MaxDevices : devices' = n
    /\ image' = None
    /\ average' = None
    /\ model' = Some({})
    /\ pc' = "ctor_plan"
    /\ UNCHANGED <<optimizer, iterations, initial_iterations, callback, avg_decay,
                   step_size, content_size, style_sizes, scales, si, opt, i, err,
                   ret, got, fe_calls, image0, average0, log, its, step_out,
                   update_in, resample_src, commit_val, opt_prev>>
    /\ UNCHANGED <<svars, wvars, fvars, lvars>>

\* Lines 363-370: the device plan, or the ValueError of a device count other
\* than 1 or 2.
CtorPlan ==
    /\ pc = "ctor_plan"
    /\ IF devices = 1
       THEN model' = Some({0}) /\ pc' = "idle" /\ err' = NoError
       ELSE IF devices = 2
       THEN model' = Some({0, 5}) /\ pc' = "idle" /\ err' = NoError
       ELSE model' = model /\ pc' = "ctor_raised" /\ err' = "devices"
    /\ UNCHANGED <<devices, image, average, optimizer, iterations,
                   initial_iterations, callback, avg_decay, step_size,
                   content_size, style_sizes, scales, si, opt, i, ret, got,
                   fe_calls, image0, average0, log, its, step_out, update_in,
                   resample_src, commit_val, opt_prev>>
    /\ UNCHANGED <<svars, wvars, fvars, lvars>>

-----------------------------------------------------------------------------
(* StyleTransfer.get_image, called between stylize calls *)

GetImage ==
    /\ pc \in {"idle", "done", "raised"}
    /\ \E f \in Formats :
          got' = Some([image_type |-> f, out |-> get_image(average, f)])
    /\ UNCHANGED <<pc, devices, model, image, average, optimizer, iterations,
                   initial_iterations, callback, avg_decay, step_size,
                   content_size, style_sizes, scales, si, opt, i, err, ret,
                   fe_calls, image0, average0, log, its, step_out, update_in,
                   resample_src, commit_val, opt_prev>>
    /\ UNCHANGED <<svars, wvars, fvars, lvars>>

-----------------------------------------------------------------------------
(* StyleTransfer.stylize *)

\* The largest iteration budgets drawn, and the most optimizer steps the
\* budgets drawn ask of one call.
MaxIters == 2

MaxSteps == 2

Optimizers == {"adam", "lbfgs", "sgd"}

Inits == {"content", "gray", "uniform", "normal", "style_stats", "random"}

\* (min_scale, end_scale) pairs drawn: one, two and three scales.
EngineScaleArgs == {<<128, 16>>, <<16, 23>>, <<16, 32>>}

\* content_image.size drawn: portrait, landscape with a short side that the
\* content layers accept and the style layers do not, and one too small for
\* the content layers.
ContentSizes == {<<31, 32>>, <<32, 16>>, <<32, 8>>}

\* style_images drawn, by size: one image, and two of which the second is
\* too small for the style layers.
StyleLists == {<< <<32, 32>> >>, << <<32, 32>>, <<12, 12>> >>}

Decays == {<<1, 2>>}

StepSizes == {<<3, 4>>}

\* The value of a pixel of the content image.
ContentPixel == <<1, 2>>

\* The representative value each init leaves in self.image (lines 419-441):
\* the resized content image, 0.5 + rand/255, rand in [0, 1), and normal
\* samples truncated to [0, 1].
InitValues(init) ==
    IF init = "content" THEN {ContentPixel}
    ELSE IF init = "gray" THEN {<<1, 2>>}
    ELSE IF init = "uniform" THEN {<<0, 1>>, <<1, 2>>}
    ELSE IF init \in {"normal", "style_stats"} THEN {<<0, 1>>, <<1, 1>>}
    ELSE {}

\* The (min_scale, end_scale, iterations, initial_iterations) drawn.
EngineRuns ==
    {r \in EngineScaleArgs \X (0..MaxIters) \X (0..MaxIters) :
        r[3] + (Len(gen_scales(Min2(r[1][1], r[1][2]), r[1][2])) - 1) * r[2] <= MaxSteps}

\* The directions an optimizer step may move the representative value in:
\* down, not at all (a zero gradient), up.
Moves == {-1, 0, 1}

\* Line 516.
ActualItsSwapped(scale, first, initial, later) == IF scale = first THEN later ELSE initial

ActualIts(scale, first, initial, later) == IF scale = first THEN initial ELSE later

actual_its == ActualIts(scales[si], scales[1], initial_iterations, iterations)

\* The shape <<h, w>> of the working image at scale sc (lines 454, 458).
ScaleShape(sc) ==
    LET c == size_to_fit(content_size, sc, TRUE) IN <<c[2], c[1]>>

arguments == <<optimizer, iterations, initial_iterations, callback, avg_decay,
               step_size, content_size, style_sizes>>

\* Lines 403-446: the schedule and the init dispatch.  The weights (lines
\* 404-412) are taken to be well formed.
StylizeBegin ==
    /\ pc = "idle"
    /\ optimizer' \in Optimizers
    /\ callback' \in BOOLEAN
    /\ avg_decay' \in Decays
    /\ step_size' \in StepSizes
    /\ content_size' \in ContentSizes
    /\ style_sizes' \in StyleLists
    /\ \E r \in EngineRuns, init \in Inits :
          LET a == r[1]
              sc == gen_scales(Min2(a[1], a[2]), a[2])
              c == size_to_fit(content_size', sc[1], TRUE)
          IN  /\ iterations' = r[2]
              /\ initial_iterations' = r[3]
              /\ scales' = sc
              /\ IF InitValues(init) # {}
                 THEN /\ \E v \in InitValues(init) :
                            image' = Some([shape |-> <<c[2], c[1]>>, val |-> v])
                      /\ err' = NoError
                      /\ pc' = "prepare"
                 ELSE /\ image' = image
                      /\ err' = "init"
                      /\ pc' = "raised"
    /\ si' = 1
    /\ opt' = None
    /\ i' = 0
    /\ ret' = None
    /\ fe_calls' = 0
    /\ image0' = image
    /\ average0' = average
    /\ log' = <<>>
    /\ its' = <<>>
    /\ step_out' = None
    /\ update_in' = None
    /\ resample_src' = None
    /\ commit_val' = None
    /\ opt_prev' = None
    /\ got' = None
    /\ UNCHANGED <<devices, model, average>>
    /\ UNCHANGED <<svars, wvars, fvars, lvars>>

\* PREPARE, lines 451-460: the working image is resampled to the scale's size
\* and clamped, and a new running average is seeded with it.
Prepare ==
    /\ pc = "prepare"
    /\ LET shape == ScaleShape(scales[si])
       IN  \E v \in Bicubic(image[1].val) :
              /\ image' = Some([shape |-> shape, val |-> Clamp01(v)])
              /\ average' = Some(EMA(shape, Clamp01(v), avg_decay))
    /\ resample_src' = image
    /\ pc' = "features"
    /\ UNCHANGED <<devices, model, scales, si, opt, i, err, ret, got, fe_calls,
                   image0, average0, log, its, step_out, update_in, commit_val,
                   opt_prev>>
    /\ UNCHANGED arguments
    /\ UNCHANGED <<svars, wvars, fvars, lvars>>

\* The style images, in order, that pass the feature extractor's size check
\* before the first that does not (lines 470-478).
RECURSIVE StylePassed(_, _)
StylePassed(sizes, sc) ==
    IF sizes = <<>> THEN 0
    ELSE LET s == size_to_fit(Head(sizes), sc, FALSE)
         IN  IF TooSmall(<<s[2], s[1]>>, style_layers) THEN 0
             ELSE 1 + StylePassed(Tail(sizes), sc)

\* PREPARE, lines 462-493: the content targets and the style targets.
Features ==
    /\ pc = "features"
    /\ IF TooSmall(ScaleShape(scales[si]), content_layers)
       THEN fe_calls' = fe_calls /\ err' = "input_size" /\ pc' = "raised"
       ELSE LET n == StylePassed(style_sizes, scales[si])
            IN  /\ fe_calls' = fe_calls + 1 + n
                /\ IF n < Len(style_sizes)
                   THEN err' = "input_size" /\ pc' = "raised"
                   ELSE err' = err /\ pc' = "optimizer"
    /\ UNCHANGED <<devices, model, image, average, scales, si, opt, i, ret, got,
                   image0, average0, log, its, step_out, update_in,
                   resample_src, commit_val, opt_prev>>
    /\ UNCHANGED arguments
    /\ UNCHANGED <<svars, wvars, fvars, lvars>>

\* scale_adam on one parameter's state with the new shape kept as it was.
ScaleAdamStateStale(st, shape) ==
    {[shape |-> st.shape, exp_avg |-> a, exp_avg_sq |-> Relu(b)] :
        a \in Bicubic(st.exp_avg), b \in Bilinear(st.exp_avg_sq)}

\* scale_adam on one parameter's state (lines 326-328): exp_avg resized
\* bicubically, exp_avg_sq bilinearly and then relu_.  Adam is built without
\* amsgrad, so there is no max_exp_avg_sq (lines 329-331).
ScaleAdamState(st, shape) ==
    {[shape |-> shape, exp_avg |-> a, exp_avg_sq |-> Relu(b)] :
        a \in Bicubic(st.exp_avg), b \in Bilinear(st.exp_avg_sq)}

\* scale_adam (lines 322-332): the loop runs over the parameters that have
\* state; an optimizer that never stepped has none.
scale_adam(state, shape) ==
    IF state = None THEN {None}
    ELSE {Some(st) : st \in ScaleAdamState(state[1], shape)}

\* Lines 495-505: the optimizer of this scale.
Optimizer ==
    /\ pc = "optimizer"
    /\ opt_prev' = opt
    /\ IF optimizer = "adam"
       THEN /\ IF scales[si] # scales[1]
               THEN \E st \in scale_adam(opt[1].state, ScaleShape(scales[si])) :
                       opt' = Some([kind |-> "adam", state |-> st])
               ELSE opt' = Some([kind |-> "adam", state |-> None])
            /\ i' = 1 /\ err' = err /\ pc' = "iterate"
       ELSE IF optimizer = "lbfgs"
       THEN /\ opt' = Some([kind |-> "lbfgs", state |-> None])
            /\ i' = 1 /\ err' = err /\ pc' = "iterate"
       ELSE opt' = opt /\ i' = i /\ err' = "optimizer" /\ pc' = "raised"
    /\ UNCHANGED <<devices, model, image, average, scales, si, ret, got,
                   fe_calls, image0, average0, log, its, step_out, update_in,
                   resample_src, commit_val>>
    /\ UNCHANGED arguments
    /\ UNCHANGED <<svars, wvars, fvars, lvars>>

\* Line 521: the box constraint is enforced for every optimizer but L-BFGS.
ClampsNever(name) == FALSE

Clamps(name) == name # "lbfgs"

\* The layers the closure asks of the feature extractor: self.layers.
all_layers == style_layers \o content_layers

\* One pass of the loop of lines 517-531 when the closure's feature
\* extraction fails its size check (line 511): the step raises.
IterateRaise ==
    /\ pc = "iterate"
    /\ i <= actual_its
    /\ TooSmall(image[1].shape, all_layers)
    /\ err' = "input_size"
    /\ pc' = "raised"
    /\ UNCHANGED <<devices, model, image, average, scales, si, opt, i, ret, got,
                   fe_calls, image0, average0, log, its, step_out, update_in,
                   resample_src, commit_val, opt_prev>>
    /\ UNCHANGED arguments
    /\ UNCHANGED <<svars, wvars, fvars, lvars>>

\* One pass of the loop of lines 517-531: the step, the clamp, the update of
\* the running average, the callback.  A step of Adam on state of another
\* shape than the image's fails inside the optimizer.
Iterate ==
    /\ pc = "iterate"
    /\ i <= actual_its
    /\ ~TooSmall(image[1].shape, all_layers)
    /\ IF opt[1].state # None /\ opt[1].state[1].shape # image[1].shape
       THEN /\ err' = "shape"
            /\ pc' = "raised"
            /\ UNCHANGED <<image, average, opt, i, fe_calls, log, step_out, update_in>>
       ELSE \E m \in Moves :
            LET stepped == RSub(image[1].val, RMul(step_size, R(m)))
                x == IF Clamps(optimizer) THEN Clamp01(stepped) ELSE stepped
                avg == EMAUpdate(average[1], x)
            IN  /\ opt' = Some([kind |-> opt[1].kind,
                                state |-> Some([shape |-> image[1].shape,
                                                exp_avg |-> R(m),
                                                exp_avg_sq |-> R(m * m)])])
                /\ image' = Some([shape |-> image[1].shape, val |-> x])
                /\ average' = Some(avg)
                /\ step_out' = Some(stepped)
                /\ update_in' = Some(x)
                /\ fe_calls' = fe_calls + 1
                /\ log' = IF callback
                          THEN Append(log, [w |-> image[1].shape[2],
                                            h |-> image[1].shape[1],
                                            i |-> i,
                                            i_max |-> actual_its,
                                            accum |-> avg.accum])
                          ELSE log
                /\ i' = i + 1
                /\ UNCHANGED <<err, pc>>
    /\ UNCHANGED <<devices, model, scales, si, ret, got, image0, average0, its,
                   resample_src, commit_val, opt_prev>>
    /\ UNCHANGED arguments
    /\ UNCHANGED <<svars, wvars, fvars, lvars>>

\* What COMMIT copies into the working image, were it the raw iterate.
CommitValueRaw(img, avg) == img.val

\* What COMMIT copies into the working image (line 535): average.get().
CommitValue(img, avg) == EMAGet(avg)

\* The loop's exit and COMMIT, lines 533-535, then the next scale or the
\* return.
Commit ==
    /\ pc = "iterate"
    /\ i > actual_its
    /\ LET v == CommitValue(image[1], average[1])
       IN  /\ image' = Some([shape |-> image[1].shape, val |-> v])
           /\ commit_val' = Some(EMAGet(average[1]))
    /\ its' = Append(its, i - 1)
    /\ IF si < Len(scales)
       THEN si' = si + 1 /\ pc' = "prepare"
       ELSE si' = si /\ pc' = "return"
    /\ UNCHANGED <<devices, model, average, scales, opt, i, err, ret, got,
                   fe_calls, image0, average0, log, step_out, update_in,
                   resample_src, opt_prev>>
    /\ UNCHANGED arguments
    /\ UNCHANGED <<svars, wvars, fvars, lvars>>

\* Line 537: return self.get_image().
Return ==
    /\ pc = "return"
    /\ ret' = Some(get_image(average, "pil"))
    /\ pc' = "done"
    /\ UNCHANGED <<devices, model, image, average, scales, si, opt, i, err, got,
                   fe_calls, image0, average0, log, its, step_out, update_in,
                   resample_src, commit_val, opt_prev>>
    /\ UNCHANGED arguments
    /\ UNCHANGED <<svars, wvars, fvars, lvars>>

Next ==
    \/ CtorBuild
    \/ CtorPlan
    \/ GetImage
    \/ StylizeBegin
    \/ Prepare
    \/ Features
    \/ Optimizer
    \/ IterateRaise
    \/ Iterate
    \/ Commit
    \/ Return

Spec == InitEngine /\ [][Next]_vars

-----------------------------------------------------------------------------
(* C1 - C4: the error paths *)

\* C1: the constructor called with 3 devices raises the device-count error,
\* and when it does the feature extractor has not been constructed.
C1_AsStated ==
    (devices = 3 /\ pc \notin {"new", "ctor_plan"}) =>
        /\ pc = "ctor_raised"
        /\ err = "devices"
        /\ model = None

\* C2: when stylize raises for an unknown init or optimizer name, the feature
\* extractor has been evaluated zero times in the call and self.image and
\* self.average are what they were before the call.
C2_AsStated ==
    (pc = "raised" /\ err \in {"init", "optimizer"}) =>
        /\ fe_calls = 0
        /\ image = image0
        /\ average = average0

\* C3: when a stylize run has raised the input-size error, the running
\* average is what it was before the call, and get_image returns what it
\* returned before the call.
C3_AsStated ==
    (pc = "raised" /\ err = "input_size") =>
        /\ average = average0
        /\ get_image(average, "pil") = get_image(average0, "pil")

\* C4: every get_image call whose format name is neither 'pil' nor
\* 'np_uint16', whatever its case, raises, in every engine state.
C4_AsStated ==
    (got # None /\ Lower(got[1].image_type) \notin {"pil", "np_uint16"}) =>
        got[1].out.kind = "ValueError"

-----------------------------------------------------------------------------
(* C6 *)

RECURSIVE RPow(_, _)
RPow(d, n) == IF n = 0 THEN R(1) ELSE RMul(d, RPow(d, n - 1))

\* The budget of the k-th scale: initial_iterations for the first, iterations
\* for the others.
Budget(k) == IF k = 1 THEN initial_iterations ELSE iterations

\* The records a callback is to see at the k-th scale: i = 1..N in order,
\* i_max = N, w and h the scale's image size, each after the update that
\* follows the i-th step (the average then holds i + 1 updates).
ScaleRecords(k) ==
    LET c == size_to_fit(content_size, scales[k], TRUE)
    IN  [j \in 1..Budget(k) |->
            [w |-> c[1], h |-> c[2], i |-> j, i_max |-> Budget(k),
             accum |-> RPow(avg_decay, j + 1)]]

RECURSIVE RecordsUpTo(_)
RecordsUpTo(k) == IF k = 0 THEN <<>> ELSE RecordsUpTo(k - 1) \o ScaleRecords(k)

\* C6: in a run that completes, the first scale takes exactly
\* initial_iterations optimizer steps and every later scale exactly
\* iterations; a callback, when given, is called once per step, after the
\* update of the running average, with i = 1..N in order, i_max = N and the
\* scale's image size, the scales in ascending order.
C6_Iterations ==
    pc = "done" =>
        /\ Len(its) = Len(scales)
        /\ \A k \in 1..Len(scales) : its[k] = Budget(k)
        /\ \A k \in 1..(Len(scales) - 1) : scales[k] < scales[k + 1]
        /\ log = IF callback THEN RecordsUpTo(Len(scales)) ELSE <<>>

\* A completed run of several scales with a callback, budgets that differ,
\* and a scale of at least two steps.
C6_Witness ==
    /\ pc = "done"
    /\ callback
    /\ Len(scales) >= 2
    /\ initial_iterations # iterations
    /\ \E j \in 1..Len(log) : log[j].i = 2

-----------------------------------------------------------------------------
(* C7 *)

\* C7: every COMMIT leaves the running average's bias-corrected value in the
\* working image; the image the next PREPARE resamples is that value at the
\* previous scale's shape; and stylize returns the last scale's
\* bias-corrected average clamped to [0, 1], rendered as an 8-bit image of
\* size size_to_fit(content size, end_scale, scale_up), whose longest edge
\* is end_scale.
C7_Commit ==
    /\ (pc \in {"return", "done"} \/ (pc = "prepare" /\ si > 1)) =>
          /\ image[1].val = EMAGet(average[1])
          /\ commit_val = Some(EMAGet(average[1]))
    /\ (pc \in {"features", "optimizer", "iterate"} /\ si > 1) =>
          /\ resample_src[1].val = commit_val[1]
          /\ resample_src[1].shape = ScaleShape(scales[si - 1])
    /\ pc = "done" =>
          LET end_scale == scales[Len(scales)]
              v == commit_val[1]
              clamped == IF RLt(v, R(0)) THEN R(0) ELSE IF RLt(R(1), v) THEN R(1) ELSE v
          IN  /\ ret # None
              /\ ret[1].kind = "pil"
              /\ ret[1].px = (255 * clamped[1]) \div clamped[2]
              /\ ret[1].size = size_to_fit(content_size, end_scale, TRUE)
              /\ Max2(ret[1].size[1], ret[1].size[2]) = end_scale
              /\ average[1].shape = <<ret[1].size[2], ret[1].size[1]>>

\* A completed run of several scales whose last raw iterate is not the
\* average that was committed and returned.
C7_Witness ==
    /\ pc = "done"
    /\ Len(scales) >= 2
    /\ its[Len(its)] >= 1
    /\ update_in[1] # commit_val[1]

-----------------------------------------------------------------------------
(* C9 *)

InUnit(v) == RLe(R(0), v) /\ RLe(v, R(1))

\* C9: with adam, what each iteration hands to the update of the running
\* average is the stepped image clamped to [0, 1], and the working image
\* holds it while the loop runs; with lbfgs it is the stepped image as it is.
C9_Clamp ==
    update_in # None =>
        /\ optimizer = "adam" =>
              /\ InUnit(update_in[1])
              /\ update_in[1] = Clamp01(step_out[1])
              /\ (pc = "iterate" /\ i > 1 => image[1].val = update_in[1])
        /\ optimizer = "lbfgs" => update_in = step_out
        /\ callback /\ log # <<>> =>
              log[Len(log)].accum = RPow(avg_decay, log[Len(log)].i + 1)

\* An adam step that left [0, 1] before the update of the running average.
C9_Witness ==
    /\ optimizer = "adam"
    /\ update_in # None
    /\ ~InUnit(step_out[1])
    /\ callback

\* An lbfgs iterate outside [0, 1] handed to the running average.
C9_LbfgsUnclamped ==
    /\ optimizer = "lbfgs"
    /\ update_in # None
    /\ ~InUnit(update_in[1])

-----------------------------------------------------------------------------
(* C10 *)

\* C10: before the first optimizer step of a scale, adam at the first scale
\* and lbfgs at every scale have no state; adam at a later scale has the
\* previous optimizer's state, if it has any, at the shape of this scale's
\* working image: exp_avg resized bicubically, exp_avg_sq resized bilinearly
\* and non-negative.  Budgets of 0 are among the runs.
C10_WarmStart ==
    (pc = "iterate" /\ i = 1) =>
        LET st == opt[1].state
            shape == ScaleShape(scales[si])
        IN  /\ image[1].shape = shape
            /\ optimizer = "lbfgs" => st = None
            /\ (optimizer = "adam" /\ si = 1) => st = None
            /\ (optimizer = "adam" /\ si > 1) =>
                  LET old == opt_prev[1].state
                  IN  /\ opt_prev[1].kind = "adam"
                      /\ (old = None) = (st = None)
                      /\ st # None =>
                            /\ st[1].shape = shape
                            /\ old[1].shape = ScaleShape(scales[si - 1])
                            /\ RLe(R(0), st[1].exp_avg_sq)
                            /\ st[1].exp_avg_sq = old[1].exp_avg_sq
                            /\ \E o \in Overshoots :
                                  st[1].exp_avg = RAdd(old[1].exp_avg, o)

\* adam about to take the first step of a later scale with state carried
\* over from a scale of another shape.
C10_Witness ==
    /\ pc = "iterate"
    /\ i = 1
    /\ optimizer = "adam"
    /\ si > 1
    /\ opt[1].state # None
    /\ opt_prev[1].state[1].shape # opt[1].state[1].shape
    /\ actual_its >= 1

-----------------------------------------------------------------------------
(* EMA in float32 *)

\* The most update calls drawn after the constructor's own.
MaxUpdates == 2

\* decay values drawn, as torch.tensor(decay) holds them: 0.99 (stylize's
\* default avg_decay), 0.9 and 0.5.
Decays32 == {<<16609444, -24>>, <<15099494, -24>>, <<8388608, -24>>}

\* Elements of input drawn: the 8-bit pixel values 0, 13/255, 25/255,
\* 128/255 and 1 as to_tensor leaves them, and 0.5.
Inputs32 == {<<0, 0>>, <<13684945, -28>>, <<13158601, -27>>, <<8421505, -24>>,
             <<8388608, -23>>, <<8388608, -24>>}

InitEMA ==
    /\ ScalesOff
    /\ WeightsOff
    /\ EngineOff
    /\ LossOff
    /\ ema_pc = "new"
    /\ ema_decay = F32Zero
    /\ ema_value = F32Zero
    /\ ema_accum = F32Zero
    /\ ema_input = F32Zero
    /\ ema_n = 0
    /\ ema_got = None

\* EMA.update on the buffers <<value, accum>> (lines 287-290).
Update32(value, accum, decay, input) ==
    <<F32Add(F32Mul(value, decay), F32Mul(F32OneMinus(decay), input)),
      F32Mul(accum, decay)>>

\* EMA.__init__ (lines 277-282): value zeroed, accum set to 1, one update.
EMAInit ==
    /\ ema_pc = "new"
    /\ \E decay \in Decays32, input \in Inputs32 :
          LET u == Update32(F32Zero, F32One, decay, input)
          IN  /\ ema_decay' = decay
              /\ ema_input' = input
              /\ ema_value' = u[1]
              /\ ema_accum' = u[2]
    /\ ema_pc' = "live"
    /\ UNCHANGED <<ema_n, ema_got>>
    /\ UNCHANGED <<svars, wvars, evars, lvars>>

\* EMA.update (lines 287-290), called on the object again.
EMAUpdateCall ==
    /\ ema_pc = "live"
    /\ ema_n < MaxUpdates
    /\ \E input \in Inputs32 :
          LET u == Update32(ema_value, ema_accum, ema_decay, input)
          IN  /\ ema_value' = u[1]
              /\ ema_accum' = u[2]
    /\ ema_n' = ema_n + 1
    /\ ema_got' = None
    /\ UNCHANGED <<ema_pc, ema_decay, ema_input>>
    /\ UNCHANGED <<svars, wvars, evars, lvars>>

\* EMA.get (lines 284-285).
EMAGetCall ==
    /\ ema_pc = "live"
    /\ ema_got' = Some(F32Div(ema_value, F32OneMinus(ema_accum)))
    /\ UNCHANGED <<ema_pc, ema_decay, ema_value, ema_accum, ema_input, ema_n>>
    /\ UNCHANGED <<svars, wvars, evars, lvars>>

NextEMA ==
    \/ EMAInit
    \/ EMAUpdateCall
    \/ EMAGetCall

SpecEMA == InitEMA /\ [][NextEMA]_vars

-----------------------------------------------------------------------------
(* C11 *)

\* C11: a running average is made from its input by zeroing value, setting
\* accum to 1 and updating once, and get() on it then returns the input
\* exactly.
C11_AsStated ==
    (ema_pc = "live" /\ ema_n = 0 /\ ema_got # None) =>
        /\ ema_accum = ema_decay
        /\ ema_got[1] = ema_input

-----------------------------------------------------------------------------
(* The content-loss terms of the composite loss *)

\* The most elements drawn for an activation.
MaxElems == 3

\* The values drawn for the elements of an activation.
Activations == {0, 1, 2}

Tensors == UNION {[1..n -> Activations] : n \in 1..MaxElems}

\* content_weight arguments drawn.
LossContentWeights == {<<1, 1>>, <<1, 2>>}

\* The default eps of ScaledMSELoss and ContentLoss: 1e-8.
Eps == <<1, 100000000>>

RECURSIVE SumSquares(_)
SumSquares(d) == IF d = <<>> THEN 0 ELSE Head(d) * Head(d) + SumSquares(Tail(d))

\* input - target, element by element.
Diff(input, target) == [j \in 1..Len(input) |-> input[j] - target[j]]

\* ScaledMSELoss.forward (lines 106-108).
ScaledMSELoss(input, target, eps) ==
    LET diff == Diff(input, target)
    IN  RDiv(R(SumSquares(diff)), RAdd(R(SumAbs(diff)), eps))

\* ContentLoss.forward (lines 109-117): the scaled loss against the target.
ContentLoss(input, target) == ScaledMSELoss(input, target, Eps)

\* nn.MSELoss with its default reduction: the mean of the squared differences.
MSELoss(input, target) ==
    RDiv(R(SumSquares(Diff(input, target))), R(Len(input)))

\* ContentLossMSE.forward (lines 119-126).
ContentLossMSE(input, target) == MSELoss(input, target)

InitLoss ==
    /\ ScalesOff
    /\ WeightsOff
    /\ EngineOff
    /\ EMAOff
    /\ l_pc = "call"
    /\ l_content_weight \in LossContentWeights
    /\ l_target = None
    /\ l_scale = None
    /\ l_input = <<>>
    /\ l_term = None

\* Lines 463-467: the term of the one content layer is built around the
\* layer's activation of the content image and the layer's weight (line 404).
LossBuild ==
    /\ l_pc = "call"
    /\ \E target \in Tensors : l_target' = Some(target)
    /\ l_scale' = Some(ContentWeights(l_content_weight)[1])
    /\ l_pc' = "built"
    /\ UNCHANGED <<l_content_weight, l_input, l_term>>
    /\ UNCHANGED <<svars, wvars, evars, fvars>>

\* The term evaluated by the closure (lines 510-512): Scale.forward (line
\* 258) of LayerApply.forward (line 271) of the loss module of line 467.
LossForward ==
    /\ l_pc = "built"
    /\ \E input \in Tensors :
          /\ Len(input) = Len(l_target[1])
          /\ l_input' = input
          /\ l_term' = Some(RMul(ContentLossMSE(input, l_target[1]), l_scale[1]))
    /\ UNCHANGED <<l_pc, l_content_weight, l_target, l_scale>>
    /\ UNCHANGED <<svars, wvars, evars, fvars>>

NextLoss ==
    \/ LossBuild
    \/ LossForward

SpecLoss == InitLoss /\ [][NextLoss]_vars

-----------------------------------------------------------------------------
(* C12 *)

\* C12: each content-loss term of the composite loss is, for activation X
\* and target T, (sum of squares of X - T) / (sum of absolute values of
\* X - T + 1e-8) times content_weight / (number of content layers), and is
\* 0 when X = T.
C12_AsStated ==
    l_term # None =>
        /\ l_term[1] = RMul(ContentLoss(l_input, l_target[1]),
                            RDiv(l_content_weight, R(Len(content_layers))))
        /\ (l_input = l_target[1] => l_term[1] = R(0))

=============================================================================
